---- MODULE Spec2Model ----
(***************************************************************************)
(* Modbus TCP test scripts of the ADAM-6000 counter repository:            *)
(*   test-modbus-connection.py  create_modbus_read_request,                *)
(*                              parse_modbus_response,                     *)
(*                              test_modbus_connection                     *)
(*   check-registers.py         read_modbus_registers,                     *)
(*                              combine_32bit_counter, simulators loop     *)
(*   simple-modbus-test.py      simple_modbus_test                         *)
(*   test_modbus_client.py      test_adam_simulator (pymodbus client)      *)
(*                                                                         *)
(* Byte strings are sequences of 0..255.  Python's 0-based indices are     *)
(* kept in the operators' arguments; Slice and At translate them.          *)
(***************************************************************************)
EXTENDS Integers, Sequences, FiniteSets, TLC

VARIABLES
    script,          \* which script is running
    pc,              \* position of the running script
    args,            \* <<unit_id, start_address, register_count>> of the request
    request,         \* bytes handed to sock.send
    response,        \* bytes returned by sock.recv
    result,          \* what the script's decoder returned
    counters,        \* 32-bit counter values the script printed
    returned,        \* return value / final message of the script
    device,          \* simulator: channel -> <<register at base, register at base+1>>
    pulses,          \* number of times the simulator changed a counter
    previous_values, \* test_adam_simulator: channel -> last counter value
    channel,         \* loop variable of the for loops
    emitted,         \* lines printed by the last step
    last,            \* the read the last monitoring step processed
    output,          \* lines printed since "Monitoring counter changes"
    sock,            \* the socket of the running read: "none", "open", "closed"
    sent,            \* every request handed to sock.send since the script started
    call,            \* how many calls of its read function the script has finished
    good             \* history: channel -> value of its latest successful monitoring read

vars == << script, pc, args, request, response, result, counters, returned,
           device, pulses, previous_values, channel, emitted, last, output,
           sock, sent, call, good >>

exchangeVars == << script, pc, args, request, response, result, counters, returned,
                  sock, sent, call >>
socketVars == << script, args, request, response, result, counters, returned,
                sock, sent, call >>
clientVars == << script, args, request, response, counters, returned, sock, sent,
                call >>
pollerVars == << device, pulses, previous_values, channel, emitted, last,
                 output, good >>

-----------------------------------------------------------------------------
(* Bounds of the model *)

\* longest register payload (in bytes) a simulated response carries
MaxData == 4

\* counter changes the simulator makes during one run
MaxPulses == 2

-----------------------------------------------------------------------------
(* Python integer and bytes primitives *)

Min(a, b) == IF a < b THEN a ELSE b

RECURSIVE BitAnd(_, _)
\* a & b on non-negative integers
BitAnd(a, b) ==
    IF a = 0 \/ b = 0 THEN 0
    ELSE (IF a % 2 = 1 /\ b % 2 = 1 THEN 1 ELSE 0) + 2 * BitAnd(a \div 2, b \div 2)

RECURSIVE BitOr(_, _)
\* a | b on non-negative integers
BitOr(a, b) ==
    IF a = 0 THEN b
    ELSE IF b = 0 THEN a
    ELSE (IF a % 2 = 1 \/ b % 2 = 1 THEN 1 ELSE 0) + 2 * BitOr(a \div 2, b \div 2)

\* a << n (Python integers do not overflow)
ShiftLeft(a, n) == a * (2 ^ n)

\* s[a:b] with 0-based a, b; the slice is clipped to the buffer
Slice(s, a, b) == SubSeq(s, a + 1, Min(b, Len(s)))

\* s[i] with 0-based i
At(s, i) == s[i + 1]

\* what struct.pack / struct.unpack raise is modelled as this value
StructError == << -1 >>

\* number of bytes of one struct format character
FormatSize(c) == IF c = "H" THEN 2 ELSE 1

\* one value packed big-endian under format character c ('H' or 'B')
PackOne(c, v) ==
    IF c = "H" THEN << v \div 256, v % 256 >> ELSE << v >>

\* whether v fits format character c
Fits(c, v) ==
    IF c = "H" THEN v \in 0 .. 65535 ELSE v \in 0 .. 255

RECURSIVE PackFrom(_, _, _)
PackFrom(fmt, vals, i) ==
    IF i > Len(fmt) THEN << >>
    ELSE PackOne(fmt[i], vals[i]) \o PackFrom(fmt, vals, i + 1)

\* struct.pack('>' + fmt, *vals)
Pack(fmt, vals) ==
    IF Len(fmt) # Len(vals) \/ \E i \in 1 .. Len(fmt) : ~Fits(fmt[i], vals[i])
    THEN StructError
    ELSE PackFrom(fmt, vals, 1)

RECURSIVE FormatLen(_, _)
FormatLen(fmt, i) ==
    IF i > Len(fmt) THEN 0 ELSE FormatSize(fmt[i]) + FormatLen(fmt, i + 1)

RECURSIVE UnpackFrom(_, _, _, _)
UnpackFrom(fmt, data, i, off) ==
    IF i > Len(fmt) THEN << >>
    ELSE << (IF fmt[i] = "H" THEN data[off + 1] * 256 + data[off + 2]
                             ELSE data[off + 1]) >>
         \o UnpackFrom(fmt, data, i + 1, off + FormatSize(fmt[i]))

\* struct.unpack('>' + fmt, data): the buffer must have exactly the format's size
Unpack(fmt, data) ==
    IF Len(data) # FormatLen(fmt, 1) THEN StructError
    ELSE UnpackFrom(fmt, data, 1, 0)

-----------------------------------------------------------------------------
(* Request builders *)

\* test-modbus-connection.py: the header is packed with '>HHHBHH' and the
\* register count appended with '>H'
create_modbus_read_request(unit_id, start_address, register_count) ==
    LET transaction_id == 1
        protocol_id == 0
        length == 6
        function_code == 3
        header == Pack(<< "H", "H", "H", "B", "H", "H" >>,
                       << transaction_id, protocol_id, length, unit_id,
                          function_code, start_address >>)
        request_data == Pack(<< "H" >>, << register_count >>)
    IN  IF header = StructError \/ request_data = StructError
        THEN StructError
        ELSE header \o request_data

\* check-registers.py, read_modbus_registers: the request is packed with '>HHHBBHH'
read_modbus_registers_request(unit_id, start_reg, count) ==
    LET transaction_id == 1
        protocol_id == 0
        length == 6
        function_code == 3
    IN  Pack(<< "H", "H", "H", "B", "B", "H", "H" >>,
             << transaction_id, protocol_id, length, unit_id, function_code,
                start_reg, count >>)

\* simple-modbus-test.py, simple_modbus_test: every field is a local constant
simple_modbus_test_request ==
    LET transaction_id == 1
        protocol_id == 0
        length == 6
        unit_id == 1
        function_code == 3
        start_address == 0
        num_registers == 2
    IN  Pack(<< "H", "H", "H", "B", "B", "H", "H" >>,
             << transaction_id, protocol_id, length, unit_id, function_code,
                start_address, num_registers >>)

-----------------------------------------------------------------------------
(* Response decoders *)

\* what a decoder hands back: ret is the returned object ("list", "None",
\* "True", "False") or "raise"; registers is the register list built; error is
\* the message; function and code are the numbers the message carries
Ret(ret, registers, error, function, code) ==
    [ ret |-> ret, registers |-> registers, error |-> error,
      function |-> function, code |-> code ]

NoResult == Ret("", << >>, "", -1, -1)

\* mutant of Unpack_H: the two bytes read low byte first ('<H')
Unpack_H_LittleEndian(chunk) ==
    IF Len(chunk) # 2 THEN StructError ELSE << chunk[2] * 256 + chunk[1] >>

\* struct.unpack('>H', chunk)[0]
Unpack_H(chunk) == Unpack(<< "H" >>, chunk)

\* test-modbus-connection.py lines 51-54: for i in range(0, byte_count, 2),
\* the two-byte slices response[9 + i:11 + i]
RegisterChunks(resp, byte_count) ==
    [ k \in 1 .. ((byte_count + 1) \div 2) |->
        Slice(resp, 9 + 2 * (k - 1), 11 + 2 * (k - 1)) ]

\* test-modbus-connection.py lines 40-58: the frame after the length check
ParseFrame(resp) ==
    LET header == Unpack(<< "H", "H", "H", "B", "B" >>, Slice(resp, 0, 8))
        function_code == header[5]
    IN  IF header = StructError \/ Len(resp) < 9
        THEN Ret("raise", << >>, "struct.error", -1, -1)
        ELSE IF BitAnd(function_code, 128) # 0
        THEN Ret("None", << >>, "Modbus error", BitAnd(function_code, 127),
                 At(resp, 8))
        ELSE IF function_code = 3
        THEN LET byte_count == At(resp, 8)
                 chunks == RegisterChunks(resp, byte_count)
             IN  IF Len(resp) < 9 + byte_count
                 THEN Ret("None", << >>, "Incomplete resp data", -1, -1)
                 ELSE IF \E k \in DOMAIN chunks : Unpack_H(chunks[k]) = StructError
                 THEN Ret("raise", << >>, "struct.error", -1, -1)
                 ELSE Ret("list",
                          [ k \in DOMAIN chunks |-> Unpack_H(chunks[k])[1] ],
                          "None", -1, -1)
        ELSE Ret("None", << >>, "Unexpected function code", function_code, -1)

\* mutant of parse_modbus_response: the length check lets buffers of 5 to 8
\* bytes through to the header unpacking
parse_modbus_response_ShortCheck(resp) ==
    IF Len(resp) < 5
    THEN Ret("None", << >>, "Response too short", -1, Len(resp))
    ELSE ParseFrame(resp)

\* test-modbus-connection.py, parse_modbus_response
parse_modbus_response(resp) ==
    IF Len(resp) < 9
    THEN Ret("None", << >>, "Response too short", -1, Len(resp))
    ELSE ParseFrame(resp)

\* check-registers.py lines 36-41: reg_data = response[9:], one value for
\* every i in range(0, len(reg_data), 2) with i + 1 < len(reg_data)
RegDataValues(reg_data) ==
    [ k \in 1 .. (Len(reg_data) \div 2) |->
        Unpack_H(Slice(reg_data, 2 * (k - 1), 2 * (k - 1) + 2))[1] ]

\* check-registers.py, read_modbus_registers: the part after sock.recv
read_modbus_registers_parse(resp) ==
    IF Len(resp) < 9
    THEN Ret("None", << >>, "None", -1, -1)
    ELSE Ret("list", RegDataValues(Slice(resp, 9, Len(resp))), "None", -1, -1)

\* simple-modbus-test.py lines 52-58: data = response[9:9 + byte_count] split
\* at every i in range(0, len(data), 2)
DataChunks(data) ==
    [ k \in 1 .. ((Len(data) + 1) \div 2) |->
        Slice(data, 2 * (k - 1), 2 * (k - 1) + 2) ]

\* simple-modbus-test.py, simple_modbus_test: the part after sock.recv;
\* registers are the printed "Register values"
simple_modbus_test_parse(resp) ==
    IF Len(resp) >= 9
    THEN LET header == Unpack(<< "H", "H", "H", "B", "B" >>, Slice(resp, 0, 8))
             resp_func_code == header[5]
             function_code == 3
         IN  IF resp_func_code = function_code
             THEN LET byte_count == At(resp, 8)
                      data == Slice(resp, 9, 9 + byte_count)
                      chunks == DataChunks(data)
                  IN  IF Len(resp) >= 9 + byte_count
                      THEN IF \E k \in DOMAIN chunks :
                                  Unpack_H(chunks[k]) = StructError
                           THEN Ret("False", << >>, "Error", -1, -1)
                           ELSE Ret("True",
                                    [ k \in DOMAIN chunks |->
                                        Unpack_H(chunks[k])[1] ],
                                    "None", -1, -1)
                      ELSE Ret("False", << >>, "None", -1, -1)
             ELSE Ret("False", << >>, "Error response", resp_func_code, -1)
    ELSE Ret("False", << >>, "None", -1, -1)

-----------------------------------------------------------------------------
(* Register assembly *)

\* mutant of combine_32bit_counter: the low register is shifted instead
combine_32bit_counter_Swapped(high_reg, low_reg) ==
    BitOr(ShiftLeft(low_reg, 16), high_reg)

\* check-registers.py, combine_32bit_counter
combine_32bit_counter(high_reg, low_reg) ==
    BitOr(ShiftLeft(high_reg, 16), low_reg)

\* test-modbus-connection.py line 94: registers[1] << 16 | registers[0]
counter_value_of(registers) ==
    BitOr(ShiftLeft(At(registers, 1), 16), At(registers, 0))

-----------------------------------------------------------------------------
(* The three socket scripts: request, response, decoding *)

Scripts == { "test-modbus-connection", "check-registers", "simple-modbus-test" }

\* unit ids test_multiple_unit_ids tries (and the default, 1)
UnitIds == { 0, 1, 2, 255 }

\* sample start addresses and register counts of the valid ranges
Addresses == { 0, 1, 256, 65535 }
Counts == { 1, 2, 4, 125 }

\* arguments the scripts themselves pass to their request builders
CallSiteArgs(s) ==
    IF s = "test-modbus-connection" THEN { << u, 0, 2 >> : u \in UnitIds }
    ELSE IF s = "check-registers" THEN { << 1, 0, 4 >> }
    ELSE { << 1, 0, 2 >> }

\* every valid argument triple of the samples; simple_modbus_test has no parameters
ValidArgs(s) ==
    IF s = "simple-modbus-test" THEN { << 1, 0, 2 >> }
    ELSE UnitIds \X Addresses \X Counts

\* transaction ids, function codes and payload bytes a peer may answer with
\* (TLC's integers are 32-bit signed, so the sampled high bytes stay below 128:
\* the largest counter of the model is 0x7F7F7F7F)
ResponseTids == { 1, 2 }
FuncCodes == { 3, 4, 131 }
DataBytes == { 0, 1, 127 }

\* payloads of up to MaxData bytes
DataSeqs == UNION { [ 1 .. n -> DataBytes ] : n \in 0 .. MaxData }

\* a response frame: MBAP header, unit 1, function code, 9th byte, payload
Frame(tid, fc, b9, data) ==
    Pack(<< "H", "H", "H", "B", "B", "B" >>,
         << tid, 0, 3 + Len(data), 1, fc, b9 >>) \o data

\* what sock.recv may return: any frame, or any prefix of one
Responses ==
    { Slice(Frame(tid, fc, b9, data), 0, n) :
        tid \in ResponseTids, fc \in FuncCodes, b9 \in 0 .. (MaxData + 1),
        data \in DataSeqs, n \in 0 .. (9 + MaxData) }

\* no monitoring read has been processed yet
NoRead == [ channel |-> -1, ok |-> FALSE, registers |-> << >>, cached |-> FALSE,
            previous |-> -1 ]

PollerIdle ==
    /\ device = << >>
    /\ pulses = 0
    /\ previous_values = << >>
    /\ channel = 0
    /\ emitted = << >>
    /\ last = NoRead
    /\ output = << >>
    /\ good = << >>

\* a script is started: nothing sent, nothing received
ExchangeStart ==
    /\ script \in Scripts
    /\ pc = "start"
    /\ request = << >>
    /\ response = << >>
    /\ result = NoResult
    /\ counters = << >>
    /\ returned = ""
    /\ sock = "none"
    /\ sent = << >>
    /\ call = 0
    /\ PollerIdle

\* ports of the simulators list of check-registers.py (lines 56-60)
Simulators == << 5502, 5503, 5504 >>

\* the endpoint of call n of a script: check-registers.py walks its list
\* twice, the other scripts talk to port 5502
PortOf(s, n) ==
    IF s = "check-registers" THEN Simulators[(n % Len(Simulators)) + 1]
    ELSE Simulators[1]

\* one entry of the log of sock.send calls
Sent(n, port, bytes) == [ call |-> n, port |-> port, bytes |-> bytes ]

\* test_modbus_connection lines 64-78: create the socket, connect, build the
\* request and send it; struct.error from the builder is caught at line 109
\* and the finally clause closes the socket
SendTestModbusConnection ==
    /\ script = "test-modbus-connection"
    /\ pc = "start"
    /\ LET req == create_modbus_read_request(args[1], args[2], args[3])
       IN  IF req = StructError
           THEN /\ request' = << >>
                /\ sent' = sent
                /\ sock' = "closed"
                /\ returned' = "False"
                /\ pc' = "done"
           ELSE /\ request' = req
                /\ sent' = Append(sent, Sent(call, PortOf(script, call), req))
                /\ sock' = "open"
                /\ returned' = returned
                /\ pc' = "sent"
    /\ UNCHANGED << script, args, response, result, counters, call >>
    /\ UNCHANGED pollerVars

\* read_modbus_registers lines 11-25: build the request, then create the
\* socket, connect and send; struct.error from struct.pack is caught at line
\* 45 before any socket exists
SendReadModbusRegisters ==
    /\ script = "check-registers"
    /\ pc = "start"
    /\ LET req == read_modbus_registers_request(args[1], args[2], args[3])
       IN  IF req = StructError
           THEN /\ request' = << >>
                /\ sent' = sent
                /\ sock' = "none"
                /\ returned' = "Failed to read registers"
                /\ pc' = "done"
           ELSE /\ request' = req
                /\ sent' = Append(sent, Sent(call, PortOf(script, call), req))
                /\ sock' = "open"
                /\ returned' = returned
                /\ pc' = "sent"
    /\ UNCHANGED << script, args, response, result, counters, call >>
    /\ UNCHANGED pollerVars

\* simple_modbus_test lines 12-34
SendSimpleModbusTest ==
    /\ script = "simple-modbus-test"
    /\ pc = "start"
    /\ request' = simple_modbus_test_request
    /\ sent' = Append(sent, Sent(call, PortOf(script, call), request'))
    /\ sock' = "open"
    /\ pc' = "sent"
    /\ UNCHANGED << script, args, response, result, counters, returned, call >>
    /\ UNCHANGED pollerVars

\* sock.recv(1024): the peer's bytes arrive
Recv ==
    /\ pc = "sent"
    /\ \E r \in Responses : response' = r
    /\ pc' = "received"
    /\ UNCHANGED << script, args, request, result, counters, returned, sock,
                    sent, call >>
    /\ UNCHANGED pollerVars

\* test_modbus_connection lines 85-98, the except clause of line 109 and the
\* finally clause of lines 112-116
ParseTestModbusConnection ==
    /\ script = "test-modbus-connection"
    /\ pc = "received"
    /\ LET r == parse_modbus_response(response)
       IN  /\ result' = r
           /\ IF r.ret = "list"
              THEN /\ counters' = IF Len(r.registers) >= 2
                                  THEN << counter_value_of(r.registers) >>
                                  ELSE << >>
                   /\ returned' = "True"
              ELSE /\ counters' = << >>
                   /\ returned' = "False"
    /\ sock' = "closed"
    /\ pc' = "done"
    /\ UNCHANGED << script, args, request, response, sent, call >>
    /\ UNCHANGED pollerVars

\* read_modbus_registers lines 29-43 (sock.close() follows sock.recv) and its
\* caller's lines 68-81
ParseReadModbusRegisters ==
    /\ script = "check-registers"
    /\ pc = "received"
    /\ LET r == read_modbus_registers_parse(response)
           regs == r.registers
       IN  /\ result' = r
           /\ IF r.ret = "list" /\ Len(regs) > 0
              THEN /\ counters' =
                        (IF Len(regs) >= 2
                         THEN << combine_32bit_counter(At(regs, 1), At(regs, 0)) >>
                         ELSE << >>)
                        \o (IF Len(regs) >= 4
                            THEN << combine_32bit_counter(At(regs, 3), At(regs, 2)) >>
                            ELSE << >>)
                   /\ returned' = "Raw registers"
              ELSE /\ counters' = << >>
                   /\ returned' = "Failed to read registers"
    /\ sock' = "closed"
    /\ pc' = "done"
    /\ UNCHANGED << script, args, request, response, sent, call >>
    /\ UNCHANGED pollerVars

\* simple_modbus_test lines 43-72: `return True` (line 60) and the except
\* clauses leave without sock.close(); only line 64 closes the socket
ParseSimpleModbusTest ==
    /\ script = "simple-modbus-test"
    /\ pc = "received"
    /\ LET r == simple_modbus_test_parse(response)
       IN  /\ result' = r
           /\ returned' = r.ret
           /\ sock' = IF r.ret = "True" \/ r.error = "Error"
                      THEN sock
                      ELSE "closed"
    /\ counters' = << >>
    /\ pc' = "done"
    /\ UNCHANGED << script, args, request, response, sent, call >>
    /\ UNCHANGED pollerVars

\* the scripts with the arguments they pass themselves, against any response
Init ==
    /\ ExchangeStart
    /\ args \in CallSiteArgs(script)

Next ==
    \/ SendTestModbusConnection
    \/ SendReadModbusRegisters
    \/ SendSimpleModbusTest
    \/ Recv
    \/ ParseTestModbusConnection
    \/ ParseReadModbusRegisters
    \/ ParseSimpleModbusTest

Spec == Init /\ [][Next]_vars

\* the request builders alone, over every sampled valid argument triple
InitEncode ==
    /\ ExchangeStart
    /\ args \in ValidArgs(script)

NextEncode ==
    \/ SendTestModbusConnection
    \/ SendReadModbusRegisters
    \/ SendSimpleModbusTest

SpecEncode == InitEncode /\ [][NextEncode]_vars

\* arguments on both sides of every limit: unit ids around 255, addresses
\* around 65535, register counts around 1, 125 and 65535
EdgeArgs(s) ==
    IF s = "simple-modbus-test" THEN { << 1, 0, 2 >> }
    ELSE { 0, 255, 256 } \X { 0, 65535, 65536 } \X { 0, 1, 125, 126, 65536 }

\* the request builders called with arguments inside and outside the ranges
InitRequests ==
    /\ ExchangeStart
    /\ args \in EdgeArgs(script)

SpecRequests == InitRequests /\ [][NextEncode]_vars

-----------------------------------------------------------------------------
(* Whole runs of the socket scripts: every call of the read function, with
   connection failures and timeouts *)

\* the unit ids test_multiple_unit_ids walks through, in its order
UnitIdList == << 0, 1, 2, 255 >>

\* responses of a run: two registers, a Modbus exception, nothing at all
SampleResponses ==
    { Frame(1, 3, 4, << 0, 7, 0, 0 >>), Frame(1, 131, 2, << >>), << >> }

\* what read_modbus_registers returns from its except clause (line 47)
ReturnedNone == Ret("None", << >>, "None", -1, -1)

\* sock.connect / socket.create_connection raises (refused, unreachable,
\* timeout).  test_modbus_connection closes its socket in the finally clause;
\* read_modbus_registers returns None from `except Exception` with the socket
\* it created at line 22 never closed; simple_modbus_test has no socket yet.
ConnectFails ==
    /\ pc = "start"
    /\ script = "check-registers"
         => read_modbus_registers_request(args[1], args[2], args[3]) # StructError
    /\ sock' = CASE script = "test-modbus-connection" -> "closed"
                [] script = "check-registers" -> "open"
                [] script = "simple-modbus-test" -> "none"
    /\ result' = IF script = "check-registers" THEN ReturnedNone ELSE result
    /\ returned' = IF script = "check-registers"
                   THEN "Failed to read registers"
                   ELSE "False"
    /\ pc' = "done"
    /\ UNCHANGED << script, args, request, response, counters, sent, call >>
    /\ UNCHANGED pollerVars

\* mutant of RecvFails: after a timeout the read starts over
RecvFails_StartsOver ==
    /\ pc = "sent"
    /\ sock' = "none"
    /\ pc' = "start"
    /\ UNCHANGED << script, args, request, response, result, counters, returned,
                    sent, call >>
    /\ UNCHANGED pollerVars

\* sock.recv raises socket.timeout (or another socket error).  Only
\* test_modbus_connection closes the socket on this path.
RecvFails ==
    /\ pc = "sent"
    /\ sock' = IF script = "test-modbus-connection" THEN "closed" ELSE sock
    /\ result' = IF script = "check-registers" THEN ReturnedNone ELSE result
    /\ returned' = IF script = "check-registers"
                   THEN "Failed to read registers"
                   ELSE "False"
    /\ pc' = "done"
    /\ UNCHANGED << script, args, request, response, counters, sent, call >>
    /\ UNCHANGED pollerVars

\* sock.recv(1024) returns one of the sample responses
RecvSample ==
    /\ pc = "sent"
    /\ \E r \in SampleResponses : response' = r
    /\ pc' = "received"
    /\ UNCHANGED << script, args, request, result, counters, returned, sock,
                    sent, call >>
    /\ UNCHANGED pollerVars

\* the next call starts with fresh locals
NextCallStarts ==
    /\ call' = call + 1
    /\ pc' = "start"
    /\ request' = << >>
    /\ response' = << >>
    /\ result' = NoResult
    /\ counters' = << >>
    /\ returned' = ""
    /\ sock' = "none"

\* test-modbus-connection.py __main__ lines 142-146 and test_multiple_unit_ids
\* lines 122-124: when the basic test with unit id 1 returned False, every
\* unit id of the list is tested in turn
NextUnitId ==
    /\ script = "test-modbus-connection"
    /\ pc = "done"
    /\ (call = 0 /\ returned = "False") \/ call \in 1 .. (Len(UnitIdList) - 1)
    /\ args' = << UnitIdList[call + 1], 0, 2 >>
    /\ NextCallStarts
    /\ UNCHANGED << script, sent >>
    /\ UNCHANGED pollerVars

\* check-registers.py lines 62-65 and 91-94: the next simulator of the list;
\* after the last one the list is read a second time
NextSimulator ==
    /\ script = "check-registers"
    /\ pc = "done"
    /\ call + 1 < 2 * Len(Simulators)
    /\ NextCallStarts
    /\ UNCHANGED << script, args, sent >>
    /\ UNCHANGED pollerVars

\* the scripts as their __main__ blocks start them
InitRuns ==
    /\ ExchangeStart
    /\ args = IF script = "check-registers" THEN << 1, 0, 4 >> ELSE << 1, 0, 2 >>

NextRuns ==
    \/ SendTestModbusConnection
    \/ SendReadModbusRegisters
    \/ SendSimpleModbusTest
    \/ ConnectFails
    \/ RecvFails
    \/ RecvSample
    \/ ParseTestModbusConnection
    \/ ParseReadModbusRegisters
    \/ ParseSimpleModbusTest
    \/ NextUnitId
    \/ NextSimulator

SpecRuns == InitRuns /\ [][NextRuns]_vars

-----------------------------------------------------------------------------
(* test_modbus_client.py: test_adam_simulator *)

\* range(16) of the initial read and range(3) of the monitoring loop
NumChannels == 16
MonitorChannels == 3

\* register pairs <<register at base address, register at base address + 1>>
\* a counter of the simulator may hold
RegPairs == { << 100, 0 >>, << 150, 0 >>, << 130, 0 >> }

\* a printed line
Line(kind, ch, value, delta) ==
    [ kind |-> kind, channel |-> ch, value |-> value, delta |-> delta ]

\* what a read of channel ch may return when it succeeds: the simulator's
\* registers for the monitored channels, any pair for the others
ReadableRegs(ch) ==
    IF ch \in DOMAIN device THEN { device[ch] } ELSE RegPairs

\* mutant of initial_counter_value: the register at the base address is
\* taken as the high word
initial_counter_value_Swapped(registers) ==
    LET low_word == At(registers, 1)
        high_word == At(registers, 0)
    IN  BitOr(ShiftLeft(high_word, 16), low_word)

\* lines 40-42: (high_word << 16) | low_word of the initial read
initial_counter_value(registers) ==
    LET low_word == At(registers, 0)
        high_word == At(registers, 1)
    IN  BitOr(ShiftLeft(high_word, 16), low_word)

\* lines 67-69: (high_word << 16) | low_word of the monitoring loop
monitor_counter_value(registers) ==
    LET low_word == At(registers, 0)
        high_word == At(registers, 1)
    IN  BitOr(ShiftLeft(high_word, 16), low_word)

\* mutant of monitor_channel: a new channel's cache entry starts at 0
monitor_channel_InitZero(previous, ch, registers) ==
    LET counter_value == monitor_counter_value(registers)
        stored == IF ch \notin DOMAIN previous
                  THEN previous @@ (ch :> 0)
                  ELSE previous
    IN  IF counter_value # stored[ch]
        THEN [ previous_values |-> [ stored EXCEPT ![ch] = counter_value ],
               lines |-> << Line("change", ch, counter_value,
                                 counter_value - stored[ch]) >> ]
        ELSE [ previous_values |-> stored, lines |-> << >> ]

\* mutant of monitor_channel: the delta is taken the other way round
monitor_channel_DeltaReversed(previous, ch, registers) ==
    LET counter_value == monitor_counter_value(registers)
        stored == IF ch \notin DOMAIN previous
                  THEN previous @@ (ch :> counter_value)
                  ELSE previous
    IN  IF counter_value # stored[ch]
        THEN [ previous_values |-> [ stored EXCEPT ![ch] = counter_value ],
               lines |-> << Line("change", ch, counter_value,
                                 stored[ch] - counter_value) >> ]
        ELSE [ previous_values |-> stored, lines |-> << >> ]

\* mutant of monitor_channel: a change is printed but the cache keeps the
\* old value
monitor_channel_KeepsOld(previous, ch, registers) ==
    LET counter_value == monitor_counter_value(registers)
        stored == IF ch \notin DOMAIN previous
                  THEN previous @@ (ch :> counter_value)
                  ELSE previous
    IN  IF counter_value # stored[ch]
        THEN [ previous_values |-> stored,
               lines |-> << Line("change", ch, counter_value,
                                 counter_value - stored[ch]) >> ]
        ELSE [ previous_values |-> stored, lines |-> << >> ]

\* lines 66-77: one successful read of the monitoring loop: the new cache
\* and the lines printed
monitor_channel(previous, ch, registers) ==
    LET counter_value == monitor_counter_value(registers)
        stored == IF ch \notin DOMAIN previous
                  THEN previous @@ (ch :> counter_value)
                  ELSE previous
    IN  IF counter_value # stored[ch]
        THEN [ previous_values |-> [ stored EXCEPT ![ch] = counter_value ],
               lines |-> << Line("change", ch, counter_value,
                                 counter_value - stored[ch]) >> ]
        ELSE [ previous_values |-> stored, lines |-> << >> ]

\* mutant of monitor_error: a failed read stores 0 for the channel
monitor_error_StoresZero(previous, ch) ==
    [ previous_values |-> IF ch \in DOMAIN previous
                          THEN [ previous EXCEPT ![ch] = 0 ]
                          ELSE previous @@ (ch :> 0),
      lines |-> << >> ]

\* line 66: `if not result.isError():` has no else branch: a read that
\* returns an error result changes nothing and prints nothing
monitor_error(previous, ch) ==
    [ previous_values |-> previous, lines |-> << >> ]

InitPoller ==
    /\ script = "test_modbus_client"
    /\ pc = "connect"
    /\ args = << >>
    /\ request = << >>
    /\ response = << >>
    /\ result = NoResult
    /\ counters = << >>
    /\ returned = ""
    /\ device \in [ 0 .. (MonitorChannels - 1) -> RegPairs ]
    /\ pulses = 0
    /\ previous_values = << >>
    /\ channel = 0
    /\ emitted = << >>
    /\ last = NoRead
    /\ output = << >>
    /\ sock = "none"
    /\ sent = << >>
    /\ call = 0
    /\ good = << >>

\* the function returns: its local variables are gone
Discarded ==
    /\ previous_values' = << >>
    /\ channel' = 0
    /\ last' = NoRead
    /\ good' = << >>
    /\ result' = NoResult

\* lines 19-27: client.connect()
Connect ==
    /\ pc = "connect"
    /\ \/ /\ pc' = "initial"
          /\ emitted' = << Line("Connected successfully!", -1, -1, 0) >>
       \/ /\ pc' = "closed"
          /\ emitted' = << Line("Failed to connect to Modbus server", -1, -1, 0),
                           Line("Disconnected from server", -1, -1, 0) >>
    /\ channel' = 0
    /\ UNCHANGED << device, pulses, previous_values, last, output, good >>
    /\ UNCHANGED socketVars

\* lines 33-45: one pass of the for loop over the 16 channels
InitialRead ==
    /\ pc = "initial"
    /\ \E ok \in BOOLEAN, registers \in ReadableRegs(channel) :
          IF ok
          THEN /\ result' = Ret("list", registers, "None", -1, -1)
               /\ emitted' = << Line("value", channel,
                                     initial_counter_value(registers), 0) >>
          ELSE /\ result' = Ret("isError", << >>, "Error", -1, -1)
               /\ emitted' = << Line("Error reading", channel, -1, 0) >>
    /\ IF channel + 1 < NumChannels
       THEN channel' = channel + 1 /\ pc' = pc
       ELSE channel' = channel /\ pc' = "di"
    /\ UNCHANGED << device, pulses, previous_values, last, output, good >>
    /\ UNCHANGED clientVars

\* lines 48-59: the digital input read, then previous_values = {}
ReadDigitalInputs ==
    /\ pc = "di"
    /\ \E ok \in BOOLEAN :
          emitted' = IF ok
                     THEN << Line("DI Channel", -1, -1, 0) >>
                     ELSE << Line("Error reading DI status", -1, -1, 0) >>
    /\ previous_values' = << >>
    /\ output' = << >>
    /\ good' = << >>
    /\ channel' = 0
    /\ result' = NoResult
    /\ pc' = "monitor"
    /\ UNCHANGED << device, pulses, last >>
    /\ UNCHANGED clientVars

\* lines 62-77: one pass of the for loop over the 3 monitored channels
MonitorRead ==
    /\ pc = "monitor"
    /\ \E ok \in BOOLEAN :
          LET registers == device[channel]
              cached == channel \in DOMAIN previous_values
              before == IF cached THEN previous_values[channel] ELSE -1
              r == monitor_channel(previous_values, channel, registers)
              e == monitor_error(previous_values, channel)
          IN  IF ok
              THEN /\ previous_values' = r.previous_values
                   /\ emitted' = r.lines
                   /\ output' = output \o r.lines
                   /\ last' = [ channel |-> channel, ok |-> TRUE,
                                registers |-> registers, cached |-> cached,
                                previous |-> before ]
                   /\ good' = (channel :> (registers[2] * 65536 + registers[1]))
                              @@ good
              ELSE /\ previous_values' = e.previous_values
                   /\ emitted' = e.lines
                   /\ output' = output \o e.lines
                   /\ last' = [ channel |-> channel, ok |-> FALSE,
                                registers |-> << >>, cached |-> cached,
                                previous |-> before ]
                   /\ good' = good
    /\ IF channel + 1 < MonitorChannels
       THEN channel' = channel + 1 /\ pc' = pc
       ELSE channel' = channel /\ pc' = "sleep"
    /\ UNCHANGED << device, pulses >>
    /\ UNCHANGED socketVars

\* line 79: time.sleep(1), then the next pass of while True
Sleep ==
    /\ pc = "sleep"
    /\ pc' = "monitor"
    /\ channel' = 0
    /\ emitted' = << >>
    /\ last' = NoRead
    /\ UNCHANGED << device, pulses, previous_values, output, good >>
    /\ UNCHANGED socketVars

\* lines 83-89: read_holding_registers raises; the handler prints and the
\* finally clause closes the client
ReadRaises ==
    /\ pc \in { "initial", "di", "monitor" }
    /\ \E kind \in { "Modbus error", "Error" } :
          emitted' = << Line(kind, -1, -1, 0),
                        Line("Disconnected from server", -1, -1, 0) >>
    /\ pc' = "closed"
    /\ Discarded
    /\ UNCHANGED << device, pulses, output >>
    /\ UNCHANGED clientVars

\* mutant of KeyboardInterrupt: the handler prints and the loop goes on
KeyboardInterrupt_LoopGoesOn ==
    /\ pc \in { "connect", "initial", "di", "monitor", "sleep" }
    /\ emitted' = << Line("Monitoring stopped by user", -1, -1, 0) >>
    /\ UNCHANGED << pc, previous_values, channel, last >>
    /\ UNCHANGED << device, pulses, output, good >>
    /\ UNCHANGED socketVars

\* lines 81-82 and 87-89: Ctrl+C anywhere inside the try block.  channel
\* keeps the position an interrupted monitoring pass had reached.
KeyboardInterrupt ==
    /\ pc \in { "connect", "initial", "di", "monitor", "sleep" }
    /\ emitted' = << Line("Monitoring stopped by user", -1, -1, 0),
                     Line("Disconnected from server", -1, -1, 0) >>
    /\ pc' = "closed"
    /\ previous_values' = << >>
    /\ last' = NoRead
    /\ good' = << >>
    /\ result' = NoResult
    /\ channel' = IF pc = "monitor" THEN channel ELSE 0
    /\ UNCHANGED << device, pulses, output >>
    /\ UNCHANGED clientVars

\* the simulator counts: one monitored counter takes another value
DeviceChange ==
    /\ pc \in { "connect", "initial", "di", "monitor", "sleep" }
    /\ pulses < MaxPulses
    /\ \E ch \in DOMAIN device :
          \E registers \in RegPairs \ { device[ch] } :
              device' = [ device EXCEPT ![ch] = registers ]
    /\ pulses' = pulses + 1
    /\ UNCHANGED << pc, previous_values, channel, emitted, last, output, good >>
    /\ UNCHANGED socketVars

NextPoller ==
    \/ Connect
    \/ InitialRead
    \/ ReadDigitalInputs
    \/ MonitorRead
    \/ Sleep
    \/ ReadRaises
    \/ KeyboardInterrupt
    \/ DeviceChange

SpecPoller == InitPoller /\ [][NextPoller]_vars

-----------------------------------------------------------------------------
(* The four scripts side by side *)

InitScripts == Init \/ InitPoller

NextScripts == Next \/ NextPoller

SpecScripts == InitScripts /\ [][NextScripts]_vars

-----------------------------------------------------------------------------
(* Wire format as the specification states it *)

\* the 12-byte read-holding-registers request
ExpectedRequest(tid, unit, start, count) ==
    << tid \div 256, tid % 256, 0, 0, 0, 6, unit, 3,
       start \div 256, start % 256, count \div 256, count % 256 >>

\* transaction id of a frame (its first two bytes, big-endian)
TidOf(frame) == frame[1] * 256 + frame[2]

\* 16-bit values whose bytes are sampled payload bytes
Reg16 == { h * 256 + l : h \in DataBytes, l \in DataBytes }

RECURSIVE BigEndian(_, _)
\* the values of vals from index i on, two bytes each, high byte first
BigEndian(vals, i) ==
    IF i > Len(vals) THEN << >>
    ELSE << vals[i] \div 256, vals[i] % 256 >> \o BigEndian(vals, i + 1)

\* the well-formed function-3 response carrying vals
WellFormedResponse(tid, vals) ==
    Frame(tid, 3, 2 * Len(vals), BigEndian(vals, 1))

\* a frame whose 9th byte is an even byte count that the buffer satisfies
CompleteEvenFrame(frame) ==
    /\ Len(frame) >= 9
    /\ frame[8] = 3
    /\ frame[9] % 2 = 0
    /\ Len(frame) >= 9 + frame[9]

\* the registers held by the byteCount bytes after the byte-count byte
PayloadRegisters(frame) ==
    [ k \in 1 .. (frame[9] \div 2) |-> frame[9 + 2 * k - 1] * 256 + frame[9 + 2 * k] ]

\* the decoder handed registers to its caller
GaveRegisters == result.ret \in { "list", "True" }

-----------------------------------------------------------------------------
(* Claims C1 - C8: frame codec and register assembly *)

\* C1: every request builder encodes (transactionId, unitId, startAddress,
\* count) as exactly the 12 bytes tid(2) 0(2) 6(2) unit(1) 3(1) start(2)
\* count(2), big-endian.  Stated as the claim has it; create_modbus_read_request
\* breaks it.
C1_RequestIsTwelveBytes ==
    pc = "sent" =>
        /\ Len(request) = 12
        /\ request = ExpectedRequest(1, args[1], args[2], args[3])

\* C2: a well-formed function-3 response whose transaction id differs from
\* the request's fails with TransactionMismatch and returns no registers.
\* Stated as the claim has it; no decoder compares the transaction ids.
C2_TransactionMismatchRejected ==
    (/\ pc = "done"
     /\ CompleteEvenFrame(response)
     /\ TidOf(response) # TidOf(request))
    => /\ ~GaveRegisters
       /\ result.error = "Transaction mismatch"

\* C3: a response with function code 0x83 and 9th byte E decodes to
\* ModbusException{3, E} and never to a register list, in every decoder.
\* Stated as the claim has it, except that of simple_modbus_test (which only
\* prints "Error response" and returns False) no more is asked than that it
\* gives no registers; read_modbus_registers returns a list.
C3_ExceptionResponseIsModbusException ==
    (/\ pc = "done"
     /\ Len(response) >= 9
     /\ response[8] = 131)
    => /\ ~GaveRegisters
       /\ script = "test-modbus-connection" =>
              /\ result.error = "Modbus error"
              /\ result.function = 3
              /\ result.code = response[9]

\* C4: a response buffer shorter than 8 bytes fails with the short-frame
\* outcome of its decoder and yields no registers, whatever it contains:
\* parse_modbus_response returns (None, "Response too short"),
\* read_modbus_registers returns None, simple_modbus_test returns False.
C4_ShortBufferFails ==
    (pc = "done" /\ Len(response) < 8)
    => /\ result.registers = << >>
       /\ counters = << >>
       /\ script = "test-modbus-connection" =>
              result.ret = "None" /\ result.error = "Response too short"
       /\ script = "check-registers" => result.ret = "None"
       /\ script = "simple-modbus-test" => result.ret = "False"

C4_Witness ==
    /\ pc = "done"
    /\ script = "test-modbus-connection"
    /\ Len(response) = 7
    /\ result.error = "Response too short"

\* C5: decoding the well-formed function-3 response built with the request's
\* transaction id, byteCount = 2 * count and count big-endian values returns
\* exactly those values, in order.
C5_RoundTrip ==
    (pc = "done" /\ Len(response) >= 9 /\ response[8] = 3) =>
        \A vals \in [ 1 .. ((Len(response) - 9) \div 2) -> Reg16 ] :
            response = WellFormedResponse(TidOf(request), vals)
            => GaveRegisters /\ result.registers = vals

C5_Witness ==
    /\ pc = "done"
    /\ script = "test-modbus-connection"
    /\ response = WellFormedResponse(1, << 256, 1 >>)
    /\ result.registers = << 256, 1 >>

\* C6: for a function-3 response the 9th byte is byteCount; with fewer than
\* 9 + byteCount bytes decode fails; otherwise exactly the byteCount bytes
\* after the byte-count byte become the registers.  Stated as the claim has it
\* (for even byte counts); read_modbus_registers ignores the byte count.
C6_ByteCountDelimitsRegisters ==
    (/\ pc = "done"
     /\ Len(response) >= 9
     /\ response[8] = 3
     /\ response[9] % 2 = 0)
    => IF Len(response) < 9 + response[9]
       THEN ~GaveRegisters
       ELSE GaveRegisters /\ result.registers = PayloadRegisters(response)

\* C7: a function code that is neither 3 nor has bit 0x80 set fails with
\* UnexpectedFunction: never registers, never a Modbus exception report.
\* Stated as the claim has it, except that of simple_modbus_test (which only
\* prints "Error response" and returns False) no more is asked than that it
\* gives no registers; read_modbus_registers returns registers.
C7_OtherFunctionCodeRejected ==
    (/\ pc = "done"
     /\ Len(response) >= 9
     /\ response[8] # 3
     /\ BitAnd(response[8], 128) = 0)
    => /\ ~GaveRegisters
       /\ result.error # "Modbus error"
       /\ script = "test-modbus-connection" =>
              result.error = "Unexpected function code"

\* C8: for every pair of 16-bit registers the low-word-first value is
\* registers[1] * 65536 + registers[0] and the high-word-first value is
\* registers[0] * 65536 + registers[1]; both lie in 0 .. 2^32 - 1; the
\* scripts' own counters are the low-word-first value.
C8_CombineWordOrders ==
    (pc = "done" /\ result.ret = "list" /\ Len(result.registers) >= 2)
    => LET r0 == At(result.registers, 0)
           r1 == At(result.registers, 1)
           lowFirst == combine_32bit_counter(r1, r0)
           highFirst == combine_32bit_counter(r0, r1)
       IN  /\ lowFirst = r1 * 65536 + r0
           /\ highFirst = r0 * 65536 + r1
           /\ lowFirst >= 0 /\ lowFirst \div 65536 <= 65535
           /\ highFirst >= 0 /\ highFirst \div 65536 <= 65535
           /\ counters[1] = r1 * 65536 + r0
           /\ (r0 = 1 /\ r1 = 0) => (lowFirst = 1 /\ highFirst = 65536)
           /\ (r0 = 0 /\ r1 = 1) => lowFirst = 65536

C8_Witness ==
    /\ pc = "done"
    /\ script = "check-registers"
    /\ result.registers = << 1, 0 >>
    /\ counters = << 1 >>

-----------------------------------------------------------------------------
(* Claims C9 - C10: the monitoring loop *)

\* the counter a register pair stands for: the register at the base address
\* is the low word
CounterOf(registers) == registers[2] * 65536 + registers[1]

\* number of lines of a kind printed for a channel by the monitoring loop
LinesOf(kind, ch) ==
    Cardinality({ i \in 1 .. Len(output) :
                    output[i].kind = kind /\ output[i].channel = ch })

-----------------------------------------------------------------------------
(* Claims C11 - C13: failures and stopping in the monitoring loop *)

FailedReadStep ==
    /\ pc = "monitor"
    /\ channel' # channel \/ pc' = "sleep"
    /\ last'.channel = channel
    /\ ~last'.ok

StoppedByUser ==
    /\ pc = "closed"
    /\ emitted[1].kind = "Monitoring stopped by user"

Stage(p) ==
    CASE p = "connect" -> 0
      [] p = "initial" -> 1
      [] p = "di" -> 2
      [] p \in { "monitor", "sleep" } -> 3
      [] p = "closed" -> 4

-----------------------------------------------------------------------------
(* Claims C14 - C15: the requests of a whole run *)

\* requests i < j of the log went to the same endpoint with none between them
ConsecutiveOnEndpoint(i, j) ==
    /\ i < j
    /\ sent[i].port = sent[j].port
    /\ \A k \in (i + 1) .. (j - 1) : sent[k].port # sent[i].port

\* C14: of two consecutive requests to an endpoint the second carries the
\* transaction id of the first plus one modulo 2^16, so never the same id.
\* Every builder sets transaction_id = 1.
C14_TransactionIdsIncrease ==
    \A i, j \in DOMAIN sent :
        ConsecutiveOnEndpoint(i, j)
        => TidOf(sent[j].bytes) = (TidOf(sent[i].bytes) + 1) % 65536

\* the poll cycle a call belongs to: check-registers.py reads its list of
\* simulators twice, the other scripts make one pass
CycleOf(n) ==
    IF script = "check-registers" THEN n \div Len(Simulators) ELSE 0

\* C15 as claimed: within one cycle no request is sent a second time to the
\* same endpoint - the same unit id, address and count.  After the basic test
\* of unit id 1 failed, test_multiple_unit_ids sends the request of unit id 1
\* again.
C15_NoRequestSentTwice ==
    \A i, j \in DOMAIN sent :
        (i < j /\ CycleOf(sent[i].call) = CycleOf(sent[j].call)
               /\ sent[i].port = sent[j].port)
        => sent[i].bytes # sent[j].bytes

\* C15 (amended): a call of a read function sends at most one request,
\* whatever becomes of it; a request is sent again only by a later call, and
\* the only call that repeats a request within a pass is the one
\* test_multiple_unit_ids makes for unit id 1 after the basic test failed.
C15_OneRequestPerCall ==
    \A i, j \in DOMAIN sent :
        i < j
        => /\ sent[i].call < sent[j].call
           /\ (CycleOf(sent[i].call) = CycleOf(sent[j].call)
                /\ sent[i].port = sent[j].port
                /\ sent[i].bytes = sent[j].bytes)
              => /\ script = "test-modbus-connection"
                 /\ sent[i].call = 0
                 /\ UnitIdList[sent[j].call] = 1

\* the basic test timed out and the test of unit id 1 timed out again
C15_Witness ==
    /\ script = "test-modbus-connection"
    /\ pc = "done"
    /\ returned = "False"
    /\ response = << >>
    /\ call = 2
    /\ Len(sent) = 3
    /\ sent[1].bytes = sent[3].bytes

-----------------------------------------------------------------------------
(* Claim C16: arguments outside the protocol's ranges *)

\* the ranges of the encoder's preconditions
InRange(a) ==
    /\ a[1] \in 0 .. 255
    /\ a[2] \in 0 .. 65535
    /\ a[3] \in 1 .. 125

\* C16: once the request has been built, arguments outside the ranges have
\* made the read fail with nothing sent, and arguments inside the ranges have
\* been encoded and sent.  A register count of 0 or of 126 .. 65535 is packed
\* and sent like any other.
C16_InvalidRequestRejected ==
    pc # "start"
    => IF InRange(args)
       THEN pc = "sent" /\ request # << >> /\ Len(sent) = 1
       ELSE pc = "done" /\ request = << >> /\ sent = << >>

-----------------------------------------------------------------------------
(* Claim C17: decoding is total *)

\* C17: for every response buffer parse_modbus_response returns registers
\* and no error, or no registers and an error, and never raises; every
\* register it returns is made of two bytes of the buffer.  With an odd
\* byte count that ends the buffer, struct.unpack raises struct.error.
C17_DecodeNeverRaises ==
    (script = "test-modbus-connection" /\ pc = "done")
    => /\ result.ret \in { "list", "None" }
       /\ result.ret = "list" => result.error = "None"
       /\ result.ret = "None" => result.error # "None" /\ result.registers = << >>
       /\ \A k \in DOMAIN result.registers :
              /\ 9 + 2 * k <= Len(response)
              /\ result.registers[k]
                   = response[8 + 2 * k] * 256 + response[9 + 2 * k]

-----------------------------------------------------------------------------
(* Claim C18: sockets are closed before the read returns *)

\* C18: no read function returns with its socket still open.
\* simple_modbus_test returns True from inside the parsing branch, before its
\* sock.close().
C18_SocketClosedOnReturn ==
    pc = "done" => sock # "open"

-----------------------------------------------------------------------------
(* Claim C19: the cache of the monitoring loop *)

\* C19: while the monitoring loop runs, after every channel's processing
\* step previous_values holds for exactly the channels that have been read
\* successfully at least once the value of their latest successful read; no
\* entry is ever removed.
C19_CacheIsLatestGoodRead ==
    pc \in { "monitor", "sleep" }
    => /\ DOMAIN previous_values = DOMAIN good
       /\ \A ch \in DOMAIN good : previous_values[ch] = good[ch]

\* two passes in which channel 1 always failed and channel 0 changed
C19_Witness ==
    /\ pc = "sleep"
    /\ DOMAIN previous_values = { 0, 2 }
    /\ output = << Line("change", 0, 150, 50) >>
    /\ previous_values[0] = 150
    /\ last.channel = 2 /\ last.ok /\ last.cached

-----------------------------------------------------------------------------
(* Claim C20: one word order in every script *)

\* C20: wherever a script assembles a 32-bit counter from a pair of
\* registers, the value is r1 * 65536 + r0, the register at the base address
\* being the low word: check-registers.py (both counters),
\* test-modbus-connection.py, and the initial read and the monitoring loop of
\* test_modbus_client.py.
C20_SameWordOrder ==
    /\ (script = "check-registers" /\ pc = "done" /\ Len(result.registers) >= 2)
       => /\ counters[1] = result.registers[2] * 65536 + result.registers[1]
          /\ Len(result.registers) >= 4
             => counters[2] = result.registers[4] * 65536 + result.registers[3]
    /\ (script = "test-modbus-connection" /\ pc = "done"
           /\ Len(result.registers) >= 2)
       => counters = << result.registers[2] * 65536 + result.registers[1] >>
    /\ (script = "test_modbus_client" /\ pc \in { "initial", "di" }
           /\ result.ret = "list")
       => emitted[1].value
            = result.registers[2] * 65536 + result.registers[1]
    /\ (script = "test_modbus_client" /\ last.ok)
       => previous_values[last.channel]
            = last.registers[2] * 65536 + last.registers[1]

\* test_modbus_connection has read the registers 1 and 127: the counter is
\* 127 * 65536 + 1
C20_Witness ==
    /\ script = "test-modbus-connection"
    /\ pc = "done"
    /\ result.registers = << 1, 127 >>
    /\ counters = << 8323073 >>

====
